---- MODULE Spec2Model ----
(***************************************************************************)
(* Model of the multi-coin market maker (src/ox_marketmaker_.py) and of    *)
(* the feed client that writes its data (src/ox_dynamic_websocket_.py).    *)
(*                                                                         *)
(* Units.  Snapshot prices (bestAsk, bestBid, indexPrice) are whole        *)
(* dollars; 0 stands for an absent, null or zero field, which the code     *)
(* treats alike (`not coin_data.get(f)`).  Order prices and the notional   *)
(* are in 1/1000 dollar, quantities and positions in 1/1000 unit.          *)
(* Thresholds are in 1/1000 (0.006 is 6).                                  *)
(***************************************************************************)
EXTENDS Integers, Sequences, FiniteSets, TLC

\* ------------------------------------------------------------------ bounds
\* most open orders the exchange keeps for one instrument, both sides
\* together; a placement beyond it is rejected (the call fails)
MaxOrders == 2

\* ------------------------------------------------------- program constants
min_spread_threshold == 6
min_distance_from_index == 4
order_value_usd == 5500
tick_size == 1

\* ------------------------------------------------------------ the universe
Coins == {1, 2}

Snap(a, b, i) == [bestAsk |-> a, bestBid |-> b, indexPrice |-> i]

\* the snapshots the hand-off file may carry for an instrument
AllSnapshots ==
    { Snap(101, 99, 100),      \* spread 2%, both sides clear the distance
      Snap(100, 98, 100),      \* spread 2%, only the bid clears
      Snap(102, 100, 100),     \* spread 2%, only the ask clears
      Snap(1004, 997, 1000),   \* spread 0.7%, neither side clears
      Snap(1003, 1000, 900),   \* spread 0.3%, both sides clear
      Snap(0, 99, 100),        \* ask absent
      Snap(101, 99, 0),        \* index absent, spread 2%
      Snap(1003, 1000, 0),     \* index absent, spread 0.3%
      Snap(6100, 6000, 6050),  \* spread 1.7%, both quantities truncate to 0
      Snap(5600, 5400, 5500) } \* spread 3.6%, the sell quantity truncates to 0

\* instrument 1 shows every snapshot; instrument 2 is a plain market that is
\* either wide enough to quote or too narrow
Snapshots(m) ==
    IF m = 1 THEN AllSnapshots
    ELSE { Snap(101, 99, 100), Snap(1003, 1000, 900) }

\* the position sizes the exchange may report: instrument 1 long, flat or
\* short, instrument 2 long or flat
PositionValues(m) == IF m = 1 THEN {-2000, 0, 2000} ELSE {0, 2000}

AllPositions == UNION {PositionValues(m) : m \in Coins}

VARIABLES
    pc,               \* where run() stands
    all_market_data,  \* run(): the data of this loop iteration
    last_order_check, \* run(): 0 until the first order-check cycle ended
    queue,            \* the market codes still to visit in the running loop
    cur,              \* the market code being managed (0: none)
    positions,        \* self.positions: cached position per market code
    working_orders,   \* manage_coin_orders: the listing as returned
    action,           \* the action of the running cycle for cur
    calls,            \* cancel and place calls issued for cur in this cycle
    book,             \* exchange: open orders per instrument and side
    actualPos,        \* exchange: the position really held per instrument
    faults,           \* environment: whether connector calls may fail in this run
    qprice,           \* the price handed to calculate_order_quantity on its own
    qresult,          \* the result of that call (-1 before it)
    data_store,       \* feed client: the latest fields per listed market code
    selected_market_codes, \* feed client: the selection, a list
    coins_with_positions,  \* feed client: the pinned set
    authenticated,    \* feed client: the login was answered
    subscribed,       \* data feed: the bestBidAsk channels of the connection
    refresh,          \* update_coin_subscriptions: its locals when it returned
    file,             \* the hand-off file as last written by save_to_json
    file_mtime,       \* the modification time of the hand-off file (0: no file)
    file_partial,     \* the file is open for writing: truncated or half written
    file_modified,    \* load_market_data: the modification time it has read
    last_file_modified, \* self.last_file_modified
    last_market_data  \* self.last_market_data

vars == <<pc, all_market_data, last_order_check, queue, cur, positions,
          working_orders, action, calls, book, actualPos,
          faults, qprice, qresult, data_store, selected_market_codes,
          coins_with_positions, authenticated, subscribed, refresh, file,
          file_mtime, file_partial, file_modified, last_file_modified,
          last_market_data>>

engineVars == <<pc, all_market_data, last_order_check, queue, cur, positions,
                working_orders, action, calls>>
exchangeVars == <<book, actualPos, faults>>
qtyVars == <<qprice, qresult>>
feedVars == <<data_store, selected_market_codes, coins_with_positions,
              authenticated, subscribed, refresh, file>>
handoffVars == <<file_mtime, file_partial, file_modified, last_file_modified,
                 last_market_data>>

\* ----------------------------------------------------------- pure functions
Abs(x) == IF x < 0 THEN -x ELSE x

\* a float ratio num/den, kept exact; den > 0
Ratio(n, d) == [num |-> n, den |-> d]

\* r < t/1000 and r > t/1000
RatioBelow(r, t) == r.num * 1000 < t * r.den
RatioAbove(r, t) == r.num * 1000 > t * r.den

calculate_spread_percentage(coin_data) ==
    IF coin_data.bestAsk = 0 \/ coin_data.bestBid = 0
    THEN Ratio(0, 1)
    ELSE IF coin_data.bestAsk + coin_data.bestBid > 0
         THEN Ratio(2 * (coin_data.bestAsk - coin_data.bestBid),
                    coin_data.bestAsk + coin_data.bestBid)
         ELSE Ratio(0, 1)

calculate_distance_from_index(price, index_price) ==
    IF index_price <= 0
    THEN Ratio(0, 1)
    ELSE Ratio(Abs(price - index_price), index_price)

\* only the BUY side is counted
check_multiple_orders_same_side_buy_only(orders) ==
    orders.buy > 1

check_multiple_orders_same_side(orders) ==
    orders.buy > 1 \/ orders.sell > 1

has_position(pos, m) == m \in DOMAIN pos /\ pos[m] # 0

\* the position exemption is missing
should_cancel_orders_due_to_narrow_spread_no_exemption(pos, m, coin_data) ==
    RatioBelow(calculate_spread_percentage(coin_data), min_spread_threshold)

should_cancel_orders_due_to_narrow_spread(pos, m, coin_data) ==
    IF has_position(pos, m)
    THEN FALSE
    ELSE RatioBelow(calculate_spread_percentage(coin_data), min_spread_threshold)

\* the spread threshold is not checked
should_make_market_no_spread_check(coin_data) ==
    IF coin_data.bestAsk = 0 \/ coin_data.bestBid = 0 \/ coin_data.indexPrice = 0
    THEN FALSE
    ELSE \/ RatioAbove(calculate_distance_from_index(coin_data.bestAsk, coin_data.indexPrice),
                       min_distance_from_index)
         \/ RatioAbove(calculate_distance_from_index(coin_data.bestBid, coin_data.indexPrice),
                       min_distance_from_index)

should_make_market(coin_data) ==
    IF coin_data.bestAsk = 0 \/ coin_data.bestBid = 0 \/ coin_data.indexPrice = 0
    THEN FALSE
    ELSE IF RatioBelow(calculate_spread_percentage(coin_data), min_spread_threshold)
    THEN FALSE
    ELSE \/ RatioAbove(calculate_distance_from_index(coin_data.bestAsk, coin_data.indexPrice),
                       min_distance_from_index)
         \/ RatioAbove(calculate_distance_from_index(coin_data.bestBid, coin_data.indexPrice),
                       min_distance_from_index)

\* the quantity rounded to the nearest 0.001 instead of truncated
calculate_order_quantity_rounded(price) ==
    IF price <= 0
    THEN 0
    ELSE (2 * order_value_usd * 1000 + price) \div (2 * price)

\* price in 1/1000 dollar, result in 1/1000 unit: order_value_usd / price,
\* then Decimal(str(quantity)).quantize(Decimal('0.001'), ROUND_DOWN) drops
\* every digit below the quantum
calculate_order_quantity(price) ==
    IF price <= 0
    THEN 0
    ELSE (order_value_usd * 1000) \div price

\* both sides are decided by the ask's distance
calculate_market_making_prices_ask_only(coin_data) ==
    LET ask_distance == calculate_distance_from_index(coin_data.bestAsk, coin_data.indexPrice)
        keys == IF RatioAbove(ask_distance, min_distance_from_index)
                THEN {"buy_price", "sell_price"}
                ELSE {}
    IN  [k \in keys |->
            IF k = "buy_price"
            THEN coin_data.bestBid * 1000 + coin_data.bestBid * tick_size
            ELSE coin_data.bestAsk * 1000 - coin_data.bestAsk * tick_size]

\* the tick is 0.4% of the price instead of 0.1%
calculate_market_making_prices_wide_tick(coin_data) ==
    LET ask_distance == calculate_distance_from_index(coin_data.bestAsk, coin_data.indexPrice)
        bid_distance == calculate_distance_from_index(coin_data.bestBid, coin_data.indexPrice)
        keys == {k \in {"buy_price", "sell_price"} :
                    IF k = "buy_price"
                    THEN RatioAbove(bid_distance, min_distance_from_index)
                    ELSE RatioAbove(ask_distance, min_distance_from_index)}
    IN  [k \in keys |->
            IF k = "buy_price"
            THEN coin_data.bestBid * 1000 + coin_data.bestBid * 4 * tick_size
            ELSE coin_data.bestAsk * 1000 - coin_data.bestAsk * 4 * tick_size]

\* the prices dict of calculate_market_making_prices: a function on the keys
\* that were set, prices in 1/1000 dollar
calculate_market_making_prices(coin_data) ==
    LET ask_distance == calculate_distance_from_index(coin_data.bestAsk, coin_data.indexPrice)
        bid_distance == calculate_distance_from_index(coin_data.bestBid, coin_data.indexPrice)
        keys == {k \in {"buy_price", "sell_price"} :
                    IF k = "buy_price"
                    THEN RatioAbove(bid_distance, min_distance_from_index)
                    ELSE RatioAbove(ask_distance, min_distance_from_index)}
    IN  [k \in keys |->
            IF k = "buy_price"
            THEN coin_data.bestBid * 1000 + coin_data.bestBid * tick_size
            ELSE coin_data.bestAsk * 1000 - coin_data.bestAsk * tick_size]

\* the closing prices are swapped: a long is sold at the ask
ClosingOrder_swapped_price(m, position_size, coin_data) ==
    [op |-> "place", coin |-> m,
     side |-> IF position_size > 0 THEN "SELL" ELSE "BUY",
     price |-> IF position_size > 0 THEN coin_data.bestAsk * 1000
                                    ELSE coin_data.bestBid * 1000,
     quantity |-> Abs(position_size)]

\* the order place_closing_order sends for a cached position
ClosingOrder(m, position_size, coin_data) ==
    [op |-> "place", coin |-> m,
     side |-> IF position_size > 0 THEN "SELL" ELSE "BUY",
     price |-> IF position_size > 0 THEN coin_data.bestBid * 1000
                                    ELSE coin_data.bestAsk * 1000,
     quantity |-> Abs(position_size)]

QuoteOrder(m, side, price) ==
    [op |-> "place", coin |-> m, side |-> side, price |-> price,
     quantity |-> calculate_order_quantity(price)]

CancelCall(m) == [op |-> "cancel", coin |-> m, side |-> "-", price |-> 0, quantity |-> 0]

\* ------------------------------------------------------------- the exchange
NoOrders == [buy |-> 0, sell |-> 0]

Key(side) == IF side = "BUY" THEN "buy" ELSE "sell"

\* outcomes of a connector call: answered, or failed (RequestException);
\* a run without faults is the steady state
CallOutcomes == IF faults THEN {"ok", "fail"} ELSE {"ok"}

\* cancel_all_orders(m) reaching the exchange; an answered cancel has taken
\* effect when the call returns
CancelEffect(m, outcome) ==
    /\ book' = IF outcome = "ok" THEN [book EXCEPT ![m] = NoOrders] ELSE book
    /\ UNCHANGED <<actualPos, faults>>

\* place_oxfun_order(m, side, ...) reaching the exchange; a full book rejects
PlaceEffect(m, side, outcome) ==
    /\ outcome = "ok" => book[m].buy + book[m].sell < MaxOrders
    /\ book' = IF outcome = "ok"
               THEN [book EXCEPT ![m][Key(side)] = @ + 1]
               ELSE book
    /\ UNCHANGED <<actualPos, faults>>

\* a resting order is filled: a BUY raises the position, a SELL lowers it
Fill(m, side) ==
    LET k == Key(side)
        p == IF side = "BUY" THEN actualPos[m] + 2000 ELSE actualPos[m] - 2000
    IN  /\ book[m][k] > 0
        /\ p \in PositionValues(m)
        /\ book' = [book EXCEPT ![m][k] = @ - 1]
        /\ actualPos' = [actualPos EXCEPT ![m] = p]
        /\ UNCHANGED faults
        /\ UNCHANGED engineVars
        /\ UNCHANGED qtyVars
        /\ UNCHANGED handoffVars
        /\ UNCHANGED feedVars

\* ---------------------------------------------------------------- run()
RECURSIVE SeqOf(_)
\* list(all_market_data.keys()), in ascending market code
SeqOf(S) ==
    IF S = {} THEN <<>>
    ELSE LET m == CHOOSE x \in S : \A y \in S : x <= y
         IN  <<m>> \o SeqOf(S \ {m})

SetPosition(pos, m, v) ==
    [k \in (DOMAIN pos) \cup {m} |-> IF k = m THEN v ELSE pos[k]]

\* load_market_data returns nothing (no file, unreadable file, no entries):
\* run() prints, sleeps 5 s and polls again
LoadNoData ==
    /\ pc = "load"
    /\ all_market_data' = <<>>
    /\ pc' = "waiting"
    /\ UNCHANGED <<last_order_check, queue, cur, positions,
                   working_orders, action, calls>>
    /\ UNCHANGED exchangeVars
    /\ UNCHANGED qtyVars
    /\ UNCHANGED handoffVars
    /\ UNCHANGED feedVars

WaitForData ==
    /\ pc = "waiting"
    /\ pc' = "load"
    /\ UNCHANGED <<all_market_data, last_order_check, queue, cur, positions,
                   working_orders, action, calls>>
    /\ UNCHANGED exchangeVars
    /\ UNCHANGED qtyVars
    /\ UNCHANGED handoffVars
    /\ UNCHANGED feedVars

\* load_market_data returns the entries of the hand-off file
LoadMarketData ==
    /\ pc = "load"
    /\ \E keys \in (SUBSET Coins) \ {{}} :
          \E data \in {d \in [keys -> AllSnapshots] : \A m \in keys : d[m] \in Snapshots(m)} :
              /\ all_market_data' = data
              /\ queue' = SeqOf(keys)
    /\ pc' = IF last_order_check = 0 THEN "cleanup" ELSE "schedule"
    /\ UNCHANGED <<last_order_check, cur, positions, working_orders, action, calls>>
    /\ UNCHANGED exchangeVars
    /\ UNCHANGED qtyVars
    /\ UNCHANGED handoffVars
    /\ UNCHANGED feedVars

\* cleanup_all_orders_at_startup, one market code of its loop
CleanupCoin ==
    /\ pc = "cleanup"
    /\ queue # <<>>
    /\ LET m == Head(queue)
       IN  \E listing \in CallOutcomes :
              LET orders == IF listing = "ok" THEN book[m] ELSE NoOrders
              IN  IF orders # NoOrders
                  THEN \E outcome \in CallOutcomes : CancelEffect(m, outcome)
                  ELSE UNCHANGED exchangeVars
    /\ queue' = Tail(queue)
    /\ UNCHANGED <<pc, all_market_data, last_order_check, cur, positions,
                   working_orders, action, calls>>
    /\ UNCHANGED qtyVars
    /\ UNCHANGED handoffVars
    /\ UNCHANGED feedVars

CleanupDone ==
    /\ pc = "cleanup"
    /\ queue = <<>>
    /\ pc' = "schedule"
    /\ UNCHANGED <<all_market_data, last_order_check, queue, cur, positions,
                   working_orders, action, calls>>
    /\ UNCHANGED exchangeVars
    /\ UNCHANGED qtyVars
    /\ UNCHANGED handoffVars
    /\ UNCHANGED feedVars

\* current_time - last_order_check >= order_check_interval: always so while
\* last_order_check is 0, else as the clock has it
OrderCheckDue ==
    /\ pc = "schedule"
    /\ pc' = "cycle"
    /\ queue' = SeqOf(DOMAIN all_market_data)
    /\ UNCHANGED <<all_market_data, last_order_check, cur, positions,
                   working_orders, action, calls>>
    /\ UNCHANGED exchangeVars
    /\ UNCHANGED qtyVars
    /\ UNCHANGED handoffVars
    /\ UNCHANGED feedVars

OrderCheckNotDue ==
    /\ pc = "schedule"
    /\ last_order_check # 0
    /\ pc' = "load"
    /\ UNCHANGED <<all_market_data, last_order_check, queue, cur, positions,
                   working_orders, action, calls>>
    /\ UNCHANGED exchangeVars
    /\ UNCHANGED qtyVars
    /\ UNCHANGED handoffVars
    /\ UNCHANGED feedVars

\* the next code is entered while the SELL order of the current one is
\* still to be placed
ManageNext_overlapping ==
    /\ pc \in {"cycle", "coin_done", "place_sell"}
    /\ queue # <<>>
    /\ cur' = Head(queue)
    /\ queue' = Tail(queue)
    /\ calls' = <<>>
    /\ action' = "NONE"
    /\ working_orders' = NoOrders
    /\ pc' = "refresh"
    /\ UNCHANGED <<all_market_data, last_order_check, positions>>
    /\ UNCHANGED exchangeVars
    /\ UNCHANGED qtyVars
    /\ UNCHANGED handoffVars
    /\ UNCHANGED feedVars

\* the for loop of the order check enters manage_coin_orders for the next code
ManageNext ==
    /\ pc \in {"cycle", "coin_done"}
    /\ queue # <<>>
    /\ cur' = Head(queue)
    /\ queue' = Tail(queue)
    /\ calls' = <<>>
    /\ action' = "NONE"
    /\ working_orders' = NoOrders
    /\ pc' = "refresh"
    /\ UNCHANGED <<all_market_data, last_order_check, positions>>
    /\ UNCHANGED exchangeVars
    /\ UNCHANGED qtyVars
    /\ UNCHANGED handoffVars
    /\ UNCHANGED feedVars

\* last_order_check is not set at the end of the order check
EndCycle_unstamped ==
    /\ pc \in {"cycle", "coin_done"}
    /\ queue = <<>>
    /\ pc' = "load"
    /\ cur' = 0
    /\ calls' = <<>>
    /\ action' = "NONE"
    /\ working_orders' = NoOrders
    /\ UNCHANGED <<all_market_data, last_order_check, queue, positions>>
    /\ UNCHANGED exchangeVars
    /\ UNCHANGED qtyVars
    /\ UNCHANGED handoffVars
    /\ UNCHANGED feedVars

\* the for loop is exhausted: last_order_check = current_time, sleep, poll again
EndCycle ==
    /\ pc \in {"cycle", "coin_done"}
    /\ queue = <<>>
    /\ last_order_check' = 1
    /\ pc' = "load"
    /\ cur' = 0
    /\ calls' = <<>>
    /\ action' = "NONE"
    /\ working_orders' = NoOrders
    /\ UNCHANGED <<all_market_data, queue, positions>>
    /\ UNCHANGED exchangeVars
    /\ UNCHANGED qtyVars
    /\ UNCHANGED handoffVars
    /\ UNCHANGED feedVars

\* ------------------------------------------------------ manage_coin_orders
coin_data == all_market_data[cur]

\* a position once cached is not fetched again
UpdatePositionTracking_cached_once ==
    /\ pc = "refresh"
    /\ \E outcome \in CallOutcomes :
          positions' = IF cur \in DOMAIN positions THEN positions
                       ELSE SetPosition(positions, cur,
                                IF outcome = "ok" THEN actualPos[cur] ELSE 0)
    /\ pc' = "check"
    /\ UNCHANGED <<all_market_data, last_order_check, queue, cur,
                   working_orders, action, calls>>
    /\ UNCHANGED exchangeVars
    /\ UNCHANGED qtyVars
    /\ UNCHANGED handoffVars
    /\ UNCHANGED feedVars

\* update_position_tracking: a failed or empty answer is cached as flat
UpdatePositionTracking ==
    /\ pc = "refresh"
    /\ \E outcome \in CallOutcomes :
          positions' = SetPosition(positions, cur,
                           IF outcome = "ok" THEN actualPos[cur] ELSE 0)
    /\ pc' = "check"
    /\ UNCHANGED <<all_market_data, last_order_check, queue, cur,
                   working_orders, action, calls>>
    /\ UNCHANGED exchangeVars
    /\ UNCHANGED qtyVars
    /\ UNCHANGED handoffVars
    /\ UNCHANGED feedVars

\* the orders are placed without the cancel before them
Decide_no_cancel(orders) ==
    IF check_multiple_orders_same_side(orders)
    THEN [action |-> "CANCEL_ALL", pc |-> "cancel_all"]
    ELSE IF should_cancel_orders_due_to_narrow_spread(positions, cur, coin_data)
    THEN [action |-> "CANCEL_ALL", pc |-> "cancel_all"]
    ELSE IF ~should_make_market(coin_data)
    THEN [action |-> "SKIP", pc |-> "coin_done"]
    ELSE [action |-> IF has_position(positions, cur) THEN "CLOSE" ELSE "QUOTE",
          pc |-> "place"]

\* the branch depends on whether an order check has run before: the first
\* cycle after the start only looks
Decide_first_cycle_idle(orders) ==
    IF last_order_check = 0
    THEN [action |-> "SKIP", pc |-> "coin_done"]
    ELSE IF check_multiple_orders_same_side(orders)
    THEN [action |-> "CANCEL_ALL", pc |-> "cancel_all"]
    ELSE IF should_cancel_orders_due_to_narrow_spread(positions, cur, coin_data)
    THEN [action |-> "CANCEL_ALL", pc |-> "cancel_all"]
    ELSE IF ~should_make_market(coin_data)
    THEN [action |-> "SKIP", pc |-> "coin_done"]
    ELSE [action |-> IF has_position(positions, cur) THEN "CLOSE" ELSE "QUOTE",
          pc |-> "cancel_replace"]

\* the listing is not looked at for duplicates
Decide_duplicates_unchecked(orders) ==
    IF should_cancel_orders_due_to_narrow_spread(positions, cur, coin_data)
    THEN [action |-> "CANCEL_ALL", pc |-> "cancel_all"]
    ELSE IF ~should_make_market(coin_data)
    THEN [action |-> "SKIP", pc |-> "coin_done"]
    ELSE [action |-> IF has_position(positions, cur) THEN "CLOSE" ELSE "QUOTE",
          pc |-> "cancel_replace"]

\* the branch manage_coin_orders takes once the listing is in
Decide(orders) ==
    IF check_multiple_orders_same_side(orders)
    THEN [action |-> "CANCEL_ALL", pc |-> "cancel_all"]
    ELSE IF should_cancel_orders_due_to_narrow_spread(positions, cur, coin_data)
    THEN [action |-> "CANCEL_ALL", pc |-> "cancel_all"]
    ELSE IF ~should_make_market(coin_data)
    THEN [action |-> "SKIP", pc |-> "coin_done"]
    ELSE [action |-> IF has_position(positions, cur) THEN "CLOSE" ELSE "QUOTE",
          pc |-> "cancel_replace"]

\* get_working_orders (a failed listing is the empty list) and the branching
CheckOrders ==
    /\ pc = "check"
    /\ \E listing \in CallOutcomes :
          working_orders' = IF listing = "ok" THEN book[cur] ELSE NoOrders
    /\ action' = Decide(working_orders').action
    /\ pc' = Decide(working_orders').pc
    /\ UNCHANGED <<all_market_data, last_order_check, queue, cur, positions, calls>>
    /\ UNCHANGED exchangeVars
    /\ UNCHANGED qtyVars
    /\ UNCHANGED handoffVars
    /\ UNCHANGED feedVars

\* cancel_all_orders of rule 1 or rule 2, then return
CancelAllOrders ==
    /\ pc = "cancel_all"
    /\ calls' = Append(calls, CancelCall(cur))
    /\ \E outcome \in CallOutcomes : CancelEffect(cur, outcome)
    /\ pc' = "coin_done"
    /\ UNCHANGED <<all_market_data, last_order_check, queue, cur, positions,
                   working_orders, action>>
    /\ UNCHANGED qtyVars
    /\ UNCHANGED handoffVars
    /\ UNCHANGED feedVars

\* the cancel before placing is left out
CancelBeforePlace_skipped ==
    /\ pc = "cancel_replace"
    /\ pc' = "place"
    /\ UNCHANGED <<all_market_data, last_order_check, queue, cur, positions,
                   working_orders, action, calls>>
    /\ UNCHANGED exchangeVars
    /\ UNCHANGED qtyVars
    /\ UNCHANGED handoffVars
    /\ UNCHANGED feedVars

\* cancel_all_orders before placing, then time.sleep(1)
CancelBeforePlace ==
    /\ pc = "cancel_replace"
    /\ calls' = Append(calls, CancelCall(cur))
    /\ \E outcome \in CallOutcomes : CancelEffect(cur, outcome)
    /\ pc' = "place"
    /\ UNCHANGED <<all_market_data, last_order_check, queue, cur, positions,
                   working_orders, action>>
    /\ UNCHANGED qtyVars
    /\ UNCHANGED handoffVars
    /\ UNCHANGED feedVars

\* place_market_making_orders with a cached position: place_closing_order
PlaceClosingOrder ==
    /\ pc = "place"
    /\ has_position(positions, cur)
    /\ LET order == ClosingOrder(cur, positions[cur], coin_data)
       IN  /\ calls' = Append(calls, order)
           /\ \E outcome \in CallOutcomes : PlaceEffect(cur, order.side, outcome)
    /\ pc' = "coin_done"
    /\ UNCHANGED <<all_market_data, last_order_check, queue, cur, positions,
                   working_orders, action>>
    /\ UNCHANGED qtyVars
    /\ UNCHANGED handoffVars
    /\ UNCHANGED feedVars

\* one side of place_market_making_orders: the order goes out if the price
\* was calculated and its quantity is positive
PlaceSide(side, key, next) ==
    LET prices == calculate_market_making_prices(coin_data)
    IN  /\ IF key \in DOMAIN prices /\ calculate_order_quantity(prices[key]) > 0
           THEN /\ calls' = Append(calls, QuoteOrder(cur, side, prices[key]))
                /\ \E outcome \in CallOutcomes : PlaceEffect(cur, side, outcome)
           ELSE /\ UNCHANGED calls
                /\ UNCHANGED exchangeVars
        /\ pc' = next
        /\ UNCHANGED <<all_market_data, last_order_check, queue, cur, positions,
                       working_orders, action>>
        /\ UNCHANGED qtyVars
        /\ UNCHANGED handoffVars
        /\ UNCHANGED feedVars

PlaceBuyOrder ==
    /\ pc = "place"
    /\ ~has_position(positions, cur)
    /\ PlaceSide("BUY", "buy_price", "place_sell")

PlaceSellOrder ==
    /\ pc = "place_sell"
    /\ PlaceSide("SELL", "sell_price", "coin_done")

\* ------------------------------------------- calculate_order_quantity alone
\* prices handed to the function on its own, in 1/1000 dollar: every price
\* up to MaxQtyPrice, and prices around the one whose quantity reaches 0
MaxQtyPrice == 6000

QtyPrices == (-2..MaxQtyPrice) \cup {5499999, 5500000, 5500001, 6006000}

ComputeQuantity ==
    /\ qresult = -1
    /\ qresult' = calculate_order_quantity(qprice)
    /\ UNCHANGED qprice
    /\ UNCHANGED engineVars
    /\ UNCHANGED exchangeVars
    /\ UNCHANGED feedVars
    /\ UNCHANGED handoffVars

\* ------------------------------------------- exceptions and lost answers
\* The connector functions catch requests.exceptions.RequestException only.
\* An answer of another shape than expected raises something else
\* (position['marketCode'] missing at line 206, a listing whose entries are
\* no objects at line 294), and a call that is never answered does not
\* return: no requests call is given a timeout.

\* the per-instrument handler is missing and the exception ends the loop
ManageRaises_unhandled ==
    /\ faults
    /\ pc \in {"refresh", "check"}
    /\ pc' = "emergency"
    /\ UNCHANGED <<all_market_data, last_order_check, queue, cur, positions,
                   working_orders, action, calls>>
    /\ UNCHANGED exchangeVars
    /\ UNCHANGED qtyVars
    /\ UNCHANGED handoffVars
    /\ UNCHANGED feedVars

\* get_positions or get_working_orders raises inside manage_coin_orders: the
\* except of line 598 prints and the for loop goes on with the next code
ManageRaises ==
    /\ faults
    /\ pc \in {"refresh", "check"}
    /\ pc' = "coin_done"
    /\ UNCHANGED <<all_market_data, last_order_check, queue, cur, positions,
                   working_orders, action, calls>>
    /\ UNCHANGED exchangeVars
    /\ UNCHANGED qtyVars
    /\ UNCHANGED handoffVars
    /\ UNCHANGED feedVars

\* the market codes print_status lists the orders of
StatusCodes ==
    {m \in DOMAIN all_market_data :
        all_market_data[m].bestAsk # 0 /\ all_market_data[m].bestBid # 0}

\* print_status, between the cleanup and the order check: it reads and
\* prints; a listing that raises is outside the handler of line 598 and is
\* caught at line 615, which ends the loop
PrintStatus ==
    /\ pc = "schedule"
    /\ \E raises \in (IF faults /\ StatusCodes # {} THEN {FALSE, TRUE} ELSE {FALSE}) :
          pc' = IF raises THEN "emergency" ELSE pc
    /\ UNCHANGED <<all_market_data, last_order_check, queue, cur, positions,
                   working_orders, action, calls>>
    /\ UNCHANGED exchangeVars
    /\ UNCHANGED qtyVars
    /\ UNCHANGED handoffVars
    /\ UNCHANGED feedVars

\* get_working_orders raises inside cleanup_all_orders_at_startup
CleanupRaises ==
    /\ faults
    /\ pc = "cleanup"
    /\ queue # <<>>
    /\ pc' = "emergency"
    /\ UNCHANGED <<all_market_data, last_order_check, queue, cur, positions,
                   working_orders, action, calls>>
    /\ UNCHANGED exchangeVars
    /\ UNCHANGED qtyVars
    /\ UNCHANGED handoffVars
    /\ UNCHANGED feedVars

\* lines 615-628: cancel_all_orders for every market code of the data, each
\* call answered or not, and run() returns
EmergencyCleanup ==
    /\ pc = "emergency"
    /\ \E outcome \in [DOMAIN all_market_data -> CallOutcomes] :
          book' = [m \in Coins |->
                      IF m \in DOMAIN all_market_data /\ outcome[m] = "ok"
                      THEN NoOrders ELSE book[m]]
    /\ pc' = "stopped"
    /\ UNCHANGED <<actualPos, faults>>
    /\ UNCHANGED <<all_market_data, last_order_check, queue, cur, positions,
                   working_orders, action, calls>>
    /\ UNCHANGED qtyVars
    /\ UNCHANGED handoffVars
    /\ UNCHANGED feedVars

\* run() stands at a connector call
AtConnectorCall ==
    \/ pc \in {"refresh", "check", "cancel_all", "cancel_replace"}
    \/ pc = "cleanup" /\ queue # <<>>
    \/ pc = "schedule" /\ StatusCodes # {}
    \/ pc = "place" /\ has_position(positions, cur)
    \/ /\ pc = "place"
       /\ ~has_position(positions, cur)
       /\ "buy_price" \in DOMAIN calculate_market_making_prices(coin_data)
       /\ calculate_order_quantity(calculate_market_making_prices(coin_data)["buy_price"]) > 0
    \/ /\ pc = "place_sell"
       /\ "sell_price" \in DOMAIN calculate_market_making_prices(coin_data)
       /\ calculate_order_quantity(calculate_market_making_prices(coin_data)["sell_price"]) > 0

\* the call is never answered: requests.get, post and delete are called
\* without a timeout (lines 84, 131, 169, 199) and do not return
CallUnanswered ==
    /\ faults
    /\ AtConnectorCall
    /\ pc' = "blocked"
    /\ UNCHANGED <<all_market_data, last_order_check, queue, cur, positions,
                   working_orders, action, calls>>
    /\ UNCHANGED exchangeVars
    /\ UNCHANGED qtyVars
    /\ UNCHANGED handoffVars
    /\ UNCHANGED feedVars

\* ------------------------------------------------------------ feed client
\* The feed client (src/ox_dynamic_websocket_.py).  Market codes are numbers;
\* spread_perc is in 1/10 percent (0.7 is 7), feed prices are integers.  An
\* absent field (None) is the empty sequence, a present one <<value>>.  Of a
\* data_store entry the model keeps the fields select_coins and save_to_json
\* read: spread_perc, volume24h and whether last_updated is set.
None == <<>>

Some(v) == <<v>>

\* the listed market codes, in the order of the list
all_market_codes == <<1, 2, 3>>

\* the markets of the exchange: the listed ones and one that is not listed
MarketCodes == {1, 2, 3, 4}

\* most instruments of a selection (self.max_coins)
max_coins == 2

min_spread_percent == 7

Range(s) == {s[i] : i \in DOMAIN s}

Listed == Range(all_market_codes)

\* the prices a bestBidAsk message carries: a spread of 1%, and for market
\* code 1 of 0.7% too
FeedBid == 1000

FeedAsks(m) == IF m = 1 THEN {1007, 1010} ELSE {1010}

\* the 24h volume a ticker message carries
Volumes(m) == IF m = 3 THEN {2} ELSE {1}

\* the sets of markets a position message reports a nonzero position for
PositionSets == SUBSET {3, 4}

NoData == [spread_perc |-> None, volume24h |-> None, last_updated |-> FALSE]

\* every order in which list(a set) may enumerate the set
RECURSIVE ListsOf(_)
ListsOf(S) ==
    IF S = {} THEN {<<>>}
    ELSE UNION {{<<x>> \o l : l \in ListsOf(S \ {x})} : x \in S}

\* the comparison admits a spread equal to the minimum
eligible_coins_at_minimum(ds) ==
    SelectSeq(all_market_codes,
              LAMBDA m : /\ ds[m].spread_perc # None
                         /\ ds[m].volume24h # None
                         /\ ds[m].spread_perc[1] >= min_spread_percent)

\* select_coins, lines 179-190: the market codes with both fields present and
\* a spread above the minimum, in the order of data_store
eligible_coins(ds) ==
    SelectSeq(all_market_codes,
              LAMBDA m : /\ ds[m].spread_perc # None
                         /\ ds[m].volume24h # None
                         /\ ds[m].spread_perc[1] > min_spread_percent)

\* float(data["volume24h"]) if data["volume24h"] else 0
volume_key(ds, m) ==
    IF ds[m].volume24h # None /\ ds[m].volume24h[1] # 0
    THEN ds[m].volume24h[1]
    ELSE 0

\* m is put before the first entry of the sorted list s with a lower volume
InsertByVolume(ds, s, m) ==
    LET lower == {i \in DOMAIN s : volume_key(ds, s[i]) < volume_key(ds, m)}
        p == IF lower = {} THEN Len(s) + 1
             ELSE CHOOSE i \in lower : \A j \in lower : i <= j
    IN  SubSeq(s, 1, p - 1) \o <<m>> \o SubSeq(s, p, Len(s))

\* the list is sorted by volume ascending
RECURSIVE sort_by_volume_ascending(_, _)
sort_by_volume_ascending(ds, coins) ==
    IF coins = <<>> THEN <<>>
    ELSE LET m == Head(coins)
             rest == sort_by_volume_ascending(ds, Tail(coins))
             higher == {i \in DOMAIN rest : volume_key(ds, rest[i]) > volume_key(ds, m)}
             p == IF higher = {} THEN Len(rest) + 1
                  ELSE CHOOSE i \in higher : \A j \in higher : i <= j
         IN  SubSeq(rest, 1, p - 1) \o <<m>> \o SubSeq(rest, p, Len(rest))

\* eligible_coins.sort(key=volume24h, reverse=True): descending and stable,
\* entries of equal volume keep their order
RECURSIVE sort_by_volume(_, _)
sort_by_volume(ds, coins) ==
    IF coins = <<>> THEN <<>>
    ELSE InsertByVolume(ds, sort_by_volume(ds, SubSeq(coins, 1, Len(coins) - 1)),
                        coins[Len(coins)])

\* the loop appends without looking at the length of the list
RECURSIVE add_by_volume_uncapped(_, _)
add_by_volume_uncapped(selected, ranked) ==
    IF ranked = <<>> THEN selected
    ELSE add_by_volume_uncapped(
             IF Head(ranked) \notin Range(selected)
             THEN Append(selected, Head(ranked))
             ELSE selected,
             Tail(ranked))

\* the loop still appends to a list that has max_coins entries
RECURSIVE add_by_volume_one_more(_, _)
add_by_volume_one_more(selected, ranked) ==
    IF ranked = <<>> THEN selected
    ELSE add_by_volume_one_more(
             IF Head(ranked) \notin Range(selected) /\ Len(selected) <= max_coins
             THEN Append(selected, Head(ranked))
             ELSE selected,
             Tail(ranked))

\* lines 199-201: append the ranked codes not yet in the list while the list
\* is shorter than max_coins
RECURSIVE add_by_volume(_, _)
add_by_volume(selected, ranked) ==
    IF ranked = <<>> THEN selected
    ELSE add_by_volume(
             IF Head(ranked) \notin Range(selected) /\ Len(selected) < max_coins
             THEN Append(selected, Head(ranked))
             ELSE selected,
             Tail(ranked))

\* the list starts empty instead of with the pinned codes
select_coins_unpinned(ds, pinned) ==
    add_by_volume(<<>>, sort_by_volume(ds, eligible_coins(ds)))

\* the list is cut to max_coins entries at the end
select_coins_cut(ds, pinned) ==
    LET selected == add_by_volume(pinned, sort_by_volume(ds, eligible_coins(ds)))
    IN  SubSeq(selected, 1, IF Len(selected) < max_coins THEN Len(selected)
                            ELSE max_coins)

\* select_coins: pinned is list(self.coins_with_positions)
select_coins(ds, pinned) ==
    add_by_volume(pinned, sort_by_volume(ds, eligible_coins(ds)))

\* update_coin_subscriptions, lines 220 and 223: the two deltas
to_unsubscribe(previous_selected, new_selected) == previous_selected \ new_selected

\* every code of the new selection is subscribed again
to_subscribe_again(previous_selected, new_selected) == new_selected

to_subscribe(previous_selected, new_selected) == new_selected \ previous_selected

\* the unsubscribe message is not sent
unsubscribe_from_channels_unsent(channels, market_codes) == channels

\* the data feed after an unsubscribe message, and after a subscribe message
unsubscribe_from_channels(channels, market_codes) == channels \ market_codes

subscribe_to_channels(channels, market_codes) == channels \cup market_codes

\* process_best_bid_ask: an empty side is 0 here; the spread is computed when
\* both sides came, as (bestAsk - bestBid) * 100 / bestBid percent
process_best_bid_ask(ds, m, ask, bid) ==
    IF m \in DOMAIN ds
    THEN [ds EXCEPT ![m] = [@ EXCEPT
              !.spread_perc = IF bid # 0 /\ ask # 0
                              THEN Some(((ask - bid) * 1000) \div bid)
                              ELSE @,
              !.last_updated = TRUE]]
    ELSE ds

\* process_ticker, one item of the message
process_ticker(ds, m, volume) ==
    IF m \in DOMAIN ds
    THEN [ds EXCEPT ![m] = [@ EXCEPT !.volume24h = Some(volume),
                                     !.last_updated = TRUE]]
    ELSE ds

\* the hand-off file before the first save; load_market_data reads a file
\* with no entry as it reads no file
NoFile == [selected_coins |-> <<>>, coins_with_positions |-> {}, data |-> {}]

\* save_to_json: the file it leaves, data being the market codes written.
\* self.data_store[market_code] of a selected code that is not listed raises
\* KeyError before the file is opened, and the file stays as it was
save_to_json(f, ds, selected, pinned) ==
    IF selected # <<>>
    THEN IF Range(selected) \subseteq DOMAIN ds
         THEN [selected_coins |-> selected, coins_with_positions |-> pinned,
               data |-> Range(selected)]
         ELSE f
    ELSE [selected_coins |-> selected, coins_with_positions |-> pinned,
          data |-> {m \in DOMAIN ds : ds[m].last_updated}]

\* make_initial_selection: all_market_codes[:self.max_coins]
initial_selection ==
    SubSeq(all_market_codes, 1,
           IF max_coins < Len(all_market_codes) THEN max_coins
           ELSE Len(all_market_codes))

NoRefresh ==
    [done |-> FALSE, previous_selected |-> {}, new_selected |-> {},
     to_unsubscribe |-> {}, to_subscribe |-> {}]

\* the login answer: subscribe_to_positions, subscribe_to_all_tickers and
\* make_initial_selection (the first max_coins listed codes, their
\* subscription, the save).  The exchange answers the one login request of
\* the connection
Login ==
    /\ ~authenticated
    /\ authenticated' = TRUE
    /\ LET selected == initial_selection
       IN  /\ selected_market_codes' = selected
           /\ subscribed' = IF selected # <<>>
                            THEN subscribe_to_channels(subscribed, Range(selected))
                            ELSE subscribed
           /\ file' = save_to_json(file, data_store, selected, coins_with_positions)
    /\ refresh' = NoRefresh
    /\ UNCHANGED <<data_store, coins_with_positions>>
    /\ UNCHANGED engineVars
    /\ UNCHANGED exchangeVars
    /\ UNCHANGED qtyVars
    /\ UNCHANGED handoffVars

\* a bestBidAsk message of a subscribed channel: process_best_bid_ask, save
BestBidAsk ==
    /\ \E m \in subscribed : \E ask \in FeedAsks(m) :
          /\ data_store' = process_best_bid_ask(data_store, m, ask, FeedBid)
          /\ file' = save_to_json(file, data_store', selected_market_codes,
                                  coins_with_positions)
    /\ refresh' = NoRefresh
    /\ UNCHANGED <<selected_market_codes, coins_with_positions, authenticated,
                   subscribed>>
    /\ UNCHANGED engineVars
    /\ UNCHANGED exchangeVars
    /\ UNCHANGED qtyVars
    /\ UNCHANGED handoffVars

\* a ticker message (all listed codes are subscribed at login): process_ticker
\* with its save
Ticker ==
    /\ authenticated
    /\ \E m \in Listed : \E volume \in Volumes(m) :
          /\ data_store' = process_ticker(data_store, m, volume)
          /\ file' = save_to_json(file, data_store', selected_market_codes,
                                  coins_with_positions)
    /\ refresh' = NoRefresh
    /\ UNCHANGED <<selected_market_codes, coins_with_positions, authenticated,
                   subscribed>>
    /\ UNCHANGED engineVars
    /\ UNCHANGED exchangeVars
    /\ UNCHANGED qtyVars
    /\ UNCHANGED handoffVars

\* a position message naming the markets with a nonzero position:
\* process_positions, which saves when the set changed
Positions ==
    /\ authenticated
    /\ \E current_positions \in PositionSets :
          IF current_positions # coins_with_positions
          THEN /\ coins_with_positions' = current_positions
               /\ file' = save_to_json(file, data_store, selected_market_codes,
                                       current_positions)
          ELSE UNCHANGED <<coins_with_positions, file>>
    /\ refresh' = NoRefresh
    /\ UNCHANGED <<data_store, selected_market_codes, authenticated, subscribed>>
    /\ UNCHANGED engineVars
    /\ UNCHANGED exchangeVars
    /\ UNCHANGED qtyVars
    /\ UNCHANGED handoffVars

\* check_timers, the one-minute timer: save_to_json
PositionCheckTimer ==
    /\ file' = save_to_json(file, data_store, selected_market_codes,
                            coins_with_positions)
    /\ refresh' = NoRefresh
    /\ UNCHANGED <<data_store, selected_market_codes, coins_with_positions,
                   authenticated, subscribed>>
    /\ UNCHANGED engineVars
    /\ UNCHANGED exchangeVars
    /\ UNCHANGED qtyVars
    /\ UNCHANGED handoffVars

\* check_timers, the five-minute timer: update_coin_subscriptions, that is
\* select_coins, the two deltas and their messages to the data feed
UpdateCoinSubscriptions ==
    /\ \E pinned \in ListsOf(coins_with_positions) :
          LET selected == select_coins(data_store, pinned)
              previous_selected == Range(selected_market_codes)
              new_selected == Range(selected)
              unsub == to_unsubscribe(previous_selected, new_selected)
              sub == to_subscribe(previous_selected, new_selected)
          IN  /\ selected_market_codes' = selected
              /\ subscribed' = subscribe_to_channels(
                                   unsubscribe_from_channels(subscribed, unsub), sub)
              /\ refresh' = [done |-> TRUE,
                             previous_selected |-> previous_selected,
                             new_selected |-> new_selected,
                             to_unsubscribe |-> unsub,
                             to_subscribe |-> sub]
    /\ UNCHANGED <<data_store, coins_with_positions, authenticated, file>>
    /\ UNCHANGED engineVars
    /\ UNCHANGED exchangeVars
    /\ UNCHANGED qtyVars
    /\ UNCHANGED handoffVars

\* the feed client after construction
InitFeedClient ==
    /\ data_store = [m \in Listed |-> NoData]
    /\ selected_market_codes = <<>>
    /\ coins_with_positions = {}
    /\ authenticated = FALSE
    /\ subscribed = {}
    /\ refresh = NoRefresh
    /\ file = NoFile

\* ------------------------------------------------------ the hand-off file
\* The file is written by save_to_json of the feed client and polled by
\* load_market_data of the engine.  Modification times are counted in clock
\* ticks of the file system; two writes may fall into one tick.
\* the most ticks the modification time takes
MaxMtime == 3

\* the snapshots the file carries here: a market wide enough to quote and
\* one too narrow
HandoffSnapshots == {Snap(101, 99, 100), Snap(1003, 1000, 900)}

\* the modification time after a write at time file_mtime or later
LaterMtimes ==
    {t \in {file_mtime, file_mtime + 1} : t > 0 /\ t <= MaxMtime}

\* save_to_json, line 346: open(filename, 'w') truncates the file; until
\* json.dump has written the last byte the file does not parse
SaveBegins ==
    /\ ~file_partial
    /\ file_partial' = TRUE
    /\ \E t \in LaterMtimes : file_mtime' = t
    /\ UNCHANGED <<file_modified, last_file_modified, last_market_data>>
    /\ UNCHANGED engineVars
    /\ UNCHANGED exchangeVars
    /\ UNCHANGED qtyVars
    /\ UNCHANGED feedVars

\* save_to_json, line 347: json.dump is through and the file is closed; it
\* holds the entries of the selection of that moment
SaveEnds ==
    /\ file_partial
    /\ file_partial' = FALSE
    /\ \E t \in LaterMtimes : file_mtime' = t
    /\ \E keys \in SUBSET Coins :
          file' = [selected_coins |-> SeqOf(keys), coins_with_positions |-> {},
                   data |-> keys]
    /\ UNCHANGED <<file_modified, last_file_modified, last_market_data>>
    /\ UNCHANGED <<data_store, selected_market_codes, coins_with_positions,
                   authenticated, subscribed, refresh>>
    /\ UNCHANGED engineVars
    /\ UNCHANGED exchangeVars
    /\ UNCHANGED qtyVars

\* run(), lines 573-584, with what load_market_data returned: nothing or no
\* entry is "waiting for market data", anything else is the data of this
\* pass of the loop
Returned(data) ==
    IF DOMAIN data = {}
    THEN /\ all_market_data' = <<>>
         /\ pc' = "waiting"
         /\ UNCHANGED queue
    ELSE /\ all_market_data' = data
         /\ queue' = SeqOf(DOMAIN data)
         /\ pc' = IF last_order_check = 0 THEN "cleanup" ELSE "schedule"

\* load_market_data, lines 219-224: no file returns None, a file that is not
\* newer than the marker returns the cached data without being opened
StatFile ==
    /\ pc = "load"
    /\ IF file_mtime = 0
       THEN /\ Returned(<<>>)
            /\ UNCHANGED file_modified
       ELSE IF file_mtime <= last_file_modified
       THEN /\ Returned(last_market_data)
            /\ UNCHANGED file_modified
       ELSE /\ file_modified' = file_mtime
            /\ pc' = "open"
            /\ UNCHANGED <<all_market_data, queue>>
    /\ UNCHANGED <<file_mtime, file_partial, last_file_modified, last_market_data>>
    /\ UNCHANGED <<last_order_check, cur, positions, working_orders, action, calls>>
    /\ UNCHANGED exchangeVars
    /\ UNCHANGED qtyVars
    /\ UNCHANGED feedVars

\* the marker is set before the file is parsed
ReadFile_marker_first ==
    /\ pc = "open"
    /\ last_file_modified' = file_modified
    /\ IF file_partial
       THEN /\ Returned(<<>>)
            /\ UNCHANGED last_market_data
       ELSE \E keys \in SUBSET file.data :
               \E data \in [keys -> HandoffSnapshots] :
                  /\ last_market_data' = data
                  /\ Returned(data)
    /\ UNCHANGED <<file_mtime, file_partial, file_modified>>
    /\ UNCHANGED <<last_order_check, cur, positions, working_orders, action, calls>>
    /\ UNCHANGED exchangeVars
    /\ UNCHANGED qtyVars
    /\ UNCHANGED feedVars

\* load_market_data, lines 226-263: json.load of a file that is open for
\* writing raises, which is caught and returns None with marker and cache as
\* they were; a complete file sets the marker and the cache, the entries
\* without last_updated being dropped
ReadFile ==
    /\ pc = "open"
    /\ IF file_partial
       THEN /\ Returned(<<>>)
            /\ UNCHANGED <<last_file_modified, last_market_data>>
       ELSE \E keys \in SUBSET file.data :
               \E data \in [keys -> HandoffSnapshots] :
                  /\ last_file_modified' = file_modified
                  /\ last_market_data' = data
                  /\ Returned(data)
    /\ UNCHANGED <<file_mtime, file_partial, file_modified>>
    /\ UNCHANGED <<last_order_check, cur, positions, working_orders, action, calls>>
    /\ UNCHANGED exchangeVars
    /\ UNCHANGED qtyVars
    /\ UNCHANGED feedVars

\* the hand-off between the two programs before either has touched the file
InitHandoff ==
    /\ file_mtime = 0
    /\ file_partial = FALSE
    /\ file_modified = 0
    /\ last_file_modified = 0
    /\ last_market_data = <<>>

\* ------------------------------------------------------------ specification
InitEngine ==
    /\ pc = "load"
    /\ all_market_data = <<>>
    /\ last_order_check = 0
    /\ queue = <<>>
    /\ cur = 0
    /\ positions = <<>>
    /\ working_orders = NoOrders
    /\ action = "NONE"
    /\ calls = <<>>

Init ==
    /\ InitEngine
    /\ book \in [Coins -> {b \in [buy : 0..MaxOrders, sell : 0..MaxOrders] :
                                b.buy + b.sell <= MaxOrders}]
    /\ actualPos \in {f \in [Coins -> AllPositions] : \A m \in Coins : f[m] \in PositionValues(m)}
    /\ faults = TRUE
    /\ qprice = 0
    /\ qresult = -1
    /\ InitFeedClient
    /\ InitHandoff

Exchange ==
    \E m \in Coins : \E side \in {"BUY", "SELL"} : Fill(m, side)

Next ==
    \/ LoadNoData
    \/ WaitForData
    \/ LoadMarketData
    \/ CleanupCoin
    \/ CleanupDone
    \/ OrderCheckDue
    \/ OrderCheckNotDue
    \/ ManageNext
    \/ EndCycle
    \/ UpdatePositionTracking
    \/ CheckOrders
    \/ CancelAllOrders
    \/ CancelBeforePlace
    \/ PlaceClosingOrder
    \/ PlaceBuyOrder
    \/ PlaceSellOrder
    \/ Exchange

Spec == Init /\ [][Next]_vars

\* the steady state: no connector call fails, and the account starts with no
\* open orders, so that every open order was placed by the engine
InitSteady ==
    /\ InitEngine
    /\ book = [m \in Coins |-> NoOrders]
    /\ actualPos \in {f \in [Coins -> AllPositions] : \A m \in Coins : f[m] \in PositionValues(m)}
    /\ faults = FALSE
    /\ qprice = 0
    /\ qresult = -1
    /\ InitFeedClient
    /\ InitHandoff

SpecSteady == InitSteady /\ [][Next]_vars

\* calculate_order_quantity applied to every price of a range
InitQty ==
    /\ InitEngine
    /\ book = [m \in Coins |-> NoOrders]
    /\ actualPos = [m \in Coins |-> 0]
    /\ faults = FALSE
    /\ qprice \in QtyPrices
    /\ qresult = -1
    /\ InitFeedClient
    /\ InitHandoff

NextQty == ComputeQuantity

SpecQty == InitQty /\ [][NextQty]_vars

\* the feed client on its own: the engine does not run
InitFeed ==
    /\ InitEngine
    /\ book = [m \in Coins |-> NoOrders]
    /\ actualPos = [m \in Coins |-> 0]
    /\ faults = FALSE
    /\ qprice = 0
    /\ qresult = -1
    /\ InitFeedClient
    /\ InitHandoff

NextFeed ==
    \/ Login
    \/ BestBidAsk
    \/ Ticker
    \/ Positions
    \/ PositionCheckTimer
    \/ UpdateCoinSubscriptions

SpecFeed == InitFeed /\ [][NextFeed]_vars

\* select_coins applied once to every data_store and pinned set of a range,
\* the initial selection being the one before.  A spread is absent, 0.5%
\* (market code 1), 0.7% (market codes 1 and 2) or 1%; a volume is absent,
\* 0, 1 or 2
SelectSpreads(m) ==
    IF m = 1 THEN {None, Some(5), Some(7), Some(10)}
    ELSE IF m = 2 THEN {None, Some(7), Some(10)}
    ELSE {None, Some(10)}

SelectVolumes == {None, Some(0), Some(1), Some(2)}

SelectData(m) ==
    {[spread_perc |-> sp, volume24h |-> v,
      last_updated |-> (sp # None \/ v # None)] :
         sp \in SelectSpreads(m), v \in SelectVolumes}

InitSelect ==
    /\ InitEngine
    /\ book = [m \in Coins |-> NoOrders]
    /\ actualPos = [m \in Coins |-> 0]
    /\ faults = FALSE
    /\ qprice = 0
    /\ qresult = -1
    /\ data_store \in {ds \in [Listed -> UNION {SelectData(m) : m \in Listed}] :
                          \A m \in Listed : ds[m] \in SelectData(m)}
    /\ coins_with_positions \in SUBSET MarketCodes
    /\ selected_market_codes = initial_selection
    /\ authenticated = TRUE
    /\ subscribed = Range(selected_market_codes)
    /\ refresh = NoRefresh
    /\ file = save_to_json(NoFile, data_store, selected_market_codes,
                           coins_with_positions)
    /\ InitHandoff

NextSelect ==
    /\ ~refresh.done
    /\ UpdateCoinSubscriptions

SpecSelect == InitSelect /\ [][NextSelect]_vars

\* the engine with connector calls that fail or raise; the account starts
\* with no open orders
InitFailures ==
    /\ InitEngine
    /\ book = [m \in Coins |-> NoOrders]
    /\ actualPos \in {f \in [Coins -> AllPositions] : \A m \in Coins : f[m] \in PositionValues(m)}
    /\ faults = TRUE
    /\ qprice = 0
    /\ qresult = -1
    /\ InitFeedClient
    /\ InitHandoff

NextFailures ==
    \/ Next
    \/ ManageRaises
    \/ PrintStatus
    \/ CleanupRaises
    \/ EmergencyCleanup

SpecFailures == InitFailures /\ [][NextFailures]_vars

\* the same with connector calls that may stay unanswered
NextUnanswered ==
    \/ NextFailures
    \/ CallUnanswered

SpecUnanswered == InitFailures /\ [][NextUnanswered]_vars

\* the connector is reachable again: from here on its calls are answered.
\* The change falls between two passes of the loop of run()
ConnectorRecovers ==
    /\ pc = "load"
    /\ faults
    /\ faults' = FALSE
    /\ UNCHANGED <<book, actualPos>>
    /\ UNCHANGED engineVars
    /\ UNCHANGED qtyVars
    /\ UNCHANGED handoffVars
    /\ UNCHANGED feedVars

\* the engine with connector calls that fail until the connector recovers
NextRecovery ==
    \/ Next
    \/ ConnectorRecovers

SpecRecovery == InitFailures /\ [][NextRecovery]_vars

\* the engine polling a hand-off file that is being rewritten, on a flat
\* account without open orders whose calls are answered
InitHandoffPolling ==
    /\ InitEngine
    /\ book = [m \in Coins |-> NoOrders]
    /\ actualPos = [m \in Coins |-> 0]
    /\ faults = FALSE
    /\ qprice = 0
    /\ qresult = -1
    /\ InitFeedClient
    /\ InitHandoff

NextHandoff ==
    \/ SaveBegins
    \/ SaveEnds
    \/ StatFile
    \/ ReadFile
    \/ WaitForData
    \/ CleanupCoin
    \/ CleanupDone
    \/ OrderCheckDue
    \/ OrderCheckNotDue
    \/ ManageNext
    \/ EndCycle
    \/ UpdatePositionTracking
    \/ CheckOrders
    \/ CancelAllOrders
    \/ CancelBeforePlace
    \/ PlaceBuyOrder
    \/ PlaceSellOrder

SpecHandoff == InitHandoffPolling /\ [][NextHandoff]_vars

\* one order-check cycle for instrument 1, flat and without open orders, on
\* every snapshot of a grid: bid and ask absent or within QuoteSpan dollars
\* of 1000, crossed and locked markets included, the index absent, far or at
\* 1000
QuoteSpan == 7

QuotePrices == {0} \cup ((1000 - QuoteSpan)..(1000 + QuoteSpan))

QuoteSnapshots ==
    {Snap(a, b, i) : a \in QuotePrices, b \in QuotePrices, i \in {0, 900, 1000}}

InitQuote ==
    /\ pc = "cycle"
    /\ all_market_data \in [{1} -> QuoteSnapshots]
    /\ last_order_check = 1
    /\ queue = <<1>>
    /\ cur = 0
    /\ positions = <<>>
    /\ working_orders = NoOrders
    /\ action = "NONE"
    /\ calls = <<>>
    /\ book = [m \in Coins |-> NoOrders]
    /\ actualPos = [m \in Coins |-> 0]
    /\ faults = FALSE
    /\ qprice = 0
    /\ qresult = -1
    /\ InitFeedClient
    /\ InitHandoff

NextQuote ==
    \/ ManageNext
    \/ UpdatePositionTracking
    \/ CheckOrders
    \/ CancelAllOrders
    \/ CancelBeforePlace
    \/ PlaceBuyOrder
    \/ PlaceSellOrder
    \/ EndCycle

SpecQuote == InitQuote /\ [][NextQuote]_vars

TypeOK ==
    /\ pc \in {"load", "waiting", "cleanup", "schedule", "cycle", "refresh", "check",
               "cancel_all", "cancel_replace", "place", "place_sell", "coin_done",
               "emergency", "stopped", "blocked", "open"}
    /\ DOMAIN all_market_data \subseteq Coins
    /\ \A m \in DOMAIN all_market_data : all_market_data[m] \in Snapshots(m)
    /\ cur \in Coins \cup {0}
    /\ DOMAIN positions \subseteq Coins
    /\ \A m \in Coins : /\ book[m].buy \in 0..MaxOrders
                        /\ book[m].sell \in 0..MaxOrders
                        /\ actualPos[m] \in PositionValues(m)
    /\ Len(calls) <= 3

\* ------------------------------------------------------------------ claims
\* manage_coin_orders has returned for cur; calls holds every cancel and
\* place call of this cycle for cur
CycleDone == pc = "coin_done"

PlaceCalls == SelectSeq(calls, LAMBDA c : c.op = "place")
CancelCalls == SelectSeq(calls, LAMBDA c : c.op = "cancel")

\* the conditions of the rules, read off the cycle's inputs
Duplicates == working_orders.buy > 1 \/ working_orders.sell > 1
Flat == cur \notin DOMAIN positions \/ positions[cur] = 0
SpreadBelow ==
    \/ coin_data.bestAsk = 0
    \/ coin_data.bestBid = 0
    \/ 2000 * (coin_data.bestAsk - coin_data.bestBid)
          < min_spread_threshold * (coin_data.bestAsk + coin_data.bestBid)
Incomplete ==
    coin_data.bestAsk = 0 \/ coin_data.bestBid = 0 \/ coin_data.indexPrice = 0
AskClears ==
    /\ coin_data.indexPrice > 0
    /\ 1000 * Abs(coin_data.bestAsk - coin_data.indexPrice)
          > min_distance_from_index * coin_data.indexPrice
BidClears ==
    /\ coin_data.indexPrice > 0
    /\ 1000 * Abs(coin_data.bestBid - coin_data.indexPrice)
          > min_distance_from_index * coin_data.indexPrice
Rule1 == Duplicates
Rule2 == Flat /\ SpreadBelow
Rule3 == Incomplete \/ SpreadBelow \/ (~AskClears /\ ~BidClears)

\* C1: a cycle whose listing shows more than one BUY or more than one SELL
\* issues cancel_all_orders and places nothing, whatever the spread, the
\* cached position and the distances are
C1_DuplicatesCancelAll ==
    (CycleDone /\ Duplicates) =>
        /\ action = "CANCEL_ALL"
        /\ calls = <<CancelCall(cur)>>

\* duplicates on the SELL side, a cached position and a market worth quoting
C1_Witness ==
    /\ CycleDone
    /\ working_orders.sell > 1
    /\ ~Flat
    /\ ~Rule3
    /\ calls = <<CancelCall(cur)>>

\* C2: every place call of a cycle is preceded, in the same cycle, by a
\* cancel_all_orders call for the same instrument, and no place call
\* precedes that cancel
C2_CancelBeforePlace ==
    \A i \in 1..Len(calls) :
        calls[i].op = "place" =>
            /\ calls[1].op = "cancel"
            /\ calls[1].coin = calls[i].coin
            /\ calls[i].coin = cur

C2_Witness ==
    /\ CycleDone
    /\ action = "QUOTE"
    /\ Len(PlaceCalls) = 2
    /\ calls[1].op = "cancel"

\* C3: in the steady state, between two order-check cycles every instrument
\* has at most one open BUY and at most one open SELL
BetweenCycles ==
    /\ last_order_check # 0
    /\ pc \in {"load", "waiting", "schedule", "cycle"}

C3_OneOrderPerSide ==
    BetweenCycles =>
        \A m \in Coins : book[m].buy <= 1 /\ book[m].sell <= 1

\* a two-sided quote of the engine rests between two cycles
C3_Witness ==
    /\ BetweenCycles
    /\ \E m \in Coins : book[m].buy = 1 /\ book[m].sell = 1

\* C4: with rules 1-3 out and a cached position, the cycle places exactly
\* one order, the closing order (SELL at best bid for a long, BUY at best
\* ask for a short, quantity the size of the position); with a cached
\* position no cycle places more than one order
C4_CloseOnly ==
    /\ (CycleDone /\ ~Rule1 /\ ~Rule2 /\ ~Rule3 /\ ~Flat) =>
          PlaceCalls =
              << [op |-> "place", coin |-> cur,
                  side |-> IF positions[cur] > 0 THEN "SELL" ELSE "BUY",
                  price |-> IF positions[cur] > 0
                            THEN 1000 * coin_data.bestBid
                            ELSE 1000 * coin_data.bestAsk,
                  quantity |-> Abs(positions[cur])] >>
    /\ ~Flat => Len(PlaceCalls) <= 1

\* a short position closed by a BUY at the best ask
C4_Witness ==
    /\ CycleDone
    /\ action = "CLOSE"
    /\ positions[cur] < 0
    /\ Len(PlaceCalls) = 1
    /\ PlaceCalls[1].side = "BUY"

\* C5: without duplicates, a flat cached position and a spread below the
\* threshold give CANCEL_ALL and no placement; with a cached position a
\* spread below the threshold gives no cancel
C5_NarrowSpreadCancel ==
    (CycleDone /\ ~Duplicates /\ SpreadBelow) =>
        IF Flat
        THEN action = "CANCEL_ALL" /\ calls = <<CancelCall(cur)>>
        ELSE CancelCalls = <<>>

\* flat, narrow, a resting order listed, and the cancel issued
C5_Witness ==
    /\ CycleDone
    /\ ~Duplicates
    /\ SpreadBelow
    /\ Flat
    /\ working_orders # NoOrders
    /\ calls = <<CancelCall(cur)>>

\* C6: while a position is really held and one closing order rests, a cycle
\* with the spread below the threshold issues no cancel, whatever the
\* position refresh returned
SingleClosingOrder(m) ==
    \/ actualPos[m] > 0 /\ book[m] = [buy |-> 0, sell |-> 1]
    \/ actualPos[m] < 0 /\ book[m] = [buy |-> 1, sell |-> 0]

C6_ClosingOrderSurvives ==
    [][ (/\ pc \in {"cancel_all", "cancel_replace"}
         /\ SpreadBelow
         /\ SingleClosingOrder(cur))
        => CancelCalls' = <<>> ]_vars

\* C7: with rules 1 and 2 out, a spread below the threshold or no side
\* clearing the distance gives SKIP: no cancel and no place call
C7_SkipLeavesOrders ==
    (CycleDone /\ ~Rule1 /\ ~Rule2 /\ (SpreadBelow \/ (~AskClears /\ ~BidClears))) =>
        /\ action = "SKIP"
        /\ calls = <<>>

\* a cached position, a narrow spread with both sides clearing the distance,
\* a resting order listed, and nothing called
C7_Witness ==
    /\ CycleDone
    /\ ~Flat
    /\ SpreadBelow
    /\ ~Incomplete
    /\ AskClears
    /\ BidClears
    /\ working_orders # NoOrders
    /\ calls = <<>>

\* C8: an incomplete snapshot without duplicates gives SKIP, flat or not
C8_IncompleteSnapshotSkips ==
    (CycleDone /\ Incomplete /\ ~Duplicates) =>
        /\ action = "SKIP"
        /\ calls = <<>>

\* C9, as stated: in a QUOTE cycle a BUY is placed iff the bid clears the
\* distance, a SELL iff the ask does, each one tick inside the touch, and at
\* least one side is quoted
Placed(side, price) ==
    \E i \in 1..Len(PlaceCalls) :
        PlaceCalls[i].side = side /\ PlaceCalls[i].price = price

PlacedSide(side) ==
    \E i \in 1..Len(PlaceCalls) : PlaceCalls[i].side = side

BuyPrice == 1000 * coin_data.bestBid + tick_size * coin_data.bestBid
SellPrice == 1000 * coin_data.bestAsk - tick_size * coin_data.bestAsk

C9_QuoteSidesAsStated ==
    (CycleDone /\ action = "QUOTE") =>
        /\ PlacedSide("BUY") <=> BidClears
        /\ PlacedSide("SELL") <=> AskClears
        /\ PlacedSide("BUY") => Placed("BUY", BuyPrice)
        /\ PlacedSide("SELL") => Placed("SELL", SellPrice)
        /\ Len(PlaceCalls) >= 1

\* C9, amended: a side is quoted iff it clears the distance and the quantity
\* for its price is positive; at least one side clears the distance
C9_QuoteSides ==
    (CycleDone /\ action = "QUOTE") =>
        /\ PlacedSide("BUY") <=> (BidClears /\ order_value_usd * 1000 >= BuyPrice)
        /\ PlacedSide("SELL") <=> (AskClears /\ order_value_usd * 1000 >= SellPrice)
        /\ PlacedSide("BUY") => Placed("BUY", BuyPrice)
        /\ PlacedSide("SELL") => Placed("SELL", SellPrice)
        /\ Len(PlaceCalls) <= 2
        /\ BidClears \/ AskClears

\* both sides clear the distance, the sell quantity truncates to 0, and only
\* the BUY goes out
C9_Witness ==
    /\ CycleDone
    /\ action = "QUOTE"
    /\ BidClears
    /\ AskClears
    /\ Len(PlaceCalls) = 1
    /\ Placed("BUY", BuyPrice)

Refreshed == refresh.done

NewSelection == Range(selected_market_codes)

NonPinned == NewSelection \ coins_with_positions

Max(a, b) == IF a >= b THEN a ELSE b

Min(a, b) == IF a <= b THEN a ELSE b

\* the snapshot of m has a spread and a volume and the spread is above the
\* minimum
Eligible(m) ==
    /\ m \in DOMAIN data_store
    /\ data_store[m].spread_perc # None
    /\ data_store[m].volume24h # None
    /\ data_store[m].spread_perc[1] > min_spread_percent

\* C11: after select_coins every pinned instrument is in the new selection,
\* whatever its spread and volume data
C11_PinnedSelected ==
    Refreshed =>
        /\ coins_with_positions \subseteq NewSelection
        /\ refresh.new_selected = NewSelection

\* pinned: one instrument at the minimum spread, one without a spread, one
\* that is not listed
C11_Witness ==
    /\ Refreshed
    /\ coins_with_positions = {1, 2, 4}
    /\ data_store[1].spread_perc = Some(min_spread_percent)
    /\ data_store[2].spread_perc = None

\* C13 as stated: the non-pinned members number at most max_n less the
\* pinned members of the selection
C13_CapAsStated ==
    Refreshed =>
        Cardinality(NonPinned)
            <= max_coins - Cardinality(coins_with_positions \cap NewSelection)

\* C13, amended: the non-pinned members number at most the capacity the
\* pinned ones leave, which is 0 when they alone reach or exceed max_n
C13_Cap ==
    Refreshed =>
        Cardinality(NonPinned)
            <= Max(0, max_coins - Cardinality(coins_with_positions \cap NewSelection))

\* one pinned instrument, and more eligible ones than the room left
C13_Witness ==
    /\ Refreshed
    /\ Cardinality(coins_with_positions) = 1
    /\ Cardinality(NonPinned) = max_coins - 1
    /\ \E m \in Listed \ NewSelection : Eligible(m)

\* C14: the selection has at most max(max_n, |pinned|) members, and with
\* max_n or more pinned instruments it is the pinned set
C14_SizeBound ==
    Refreshed =>
        /\ Cardinality(NewSelection)
               <= Max(max_coins, Cardinality(coins_with_positions))
        /\ Cardinality(coins_with_positions) >= max_coins
               => NewSelection = coins_with_positions

\* more pinned instruments than max_n while an eligible one is left out
C14_Witness ==
    /\ Refreshed
    /\ Cardinality(coins_with_positions) > max_coins
    /\ Cardinality(NewSelection) > max_coins
    /\ \E m \in Listed \ coins_with_positions : Eligible(m)

\* C15: a non-pinned member of the selection has a spread and a volume, and
\* its spread is above the minimum
C15_NonPinnedEligible ==
    Refreshed => \A m \in NonPinned : Eligible(m)

\* room is left in the selection, and an instrument at the minimum spread
\* with a volume, and one with a spread and no volume, stay out
C15_Witness ==
    /\ Refreshed
    /\ Cardinality(NewSelection) < max_coins
    /\ \E m \in Listed \ NewSelection :
          /\ data_store[m].spread_perc = Some(min_spread_percent)
          /\ data_store[m].volume24h # None
    /\ \E m \in Listed \ NewSelection :
          /\ data_store[m].spread_perc = Some(10)
          /\ data_store[m].volume24h = None

\* the eligible instruments that are not pinned
EligibleNonPinned == {m \in Listed \ coins_with_positions : Eligible(m)}

\* m ranks before n: a higher volume, or the same volume and an earlier
\* place in data_store
RanksBefore(m, n) ==
    \/ data_store[m].volume24h[1] > data_store[n].volume24h[1]
    \/ /\ data_store[m].volume24h[1] = data_store[n].volume24h[1]
       /\ m < n

\* C16: the non-pinned members are the first k eligible non-pinned
\* instruments by volume descending, ties in data_store order, with
\* k = min(their number, max(0, max_n - |pinned|)); no eligible instrument
\* left out has a higher volume than a non-pinned member
C16_TopByVolume ==
    Refreshed =>
        LET k == Min(Cardinality(EligibleNonPinned),
                     Max(0, max_coins - Cardinality(coins_with_positions)))
        IN  /\ NonPinned =
                  {m \in EligibleNonPinned :
                      Cardinality({n \in EligibleNonPinned : RanksBefore(n, m)}) < k}
            /\ \A m \in NonPinned : \A n \in EligibleNonPinned \ NonPinned :
                  data_store[n].volume24h[1] <= data_store[m].volume24h[1]

\* one pinned instrument leaves room for one of three eligible ones: the
\* first in data_store has the lowest volume, the two others tie, and the
\* earlier of the two is taken
C16_Witness ==
    /\ Refreshed
    /\ coins_with_positions = {4}
    /\ EligibleNonPinned = {1, 2, 3}
    /\ data_store[1].volume24h = Some(1)
    /\ data_store[2].volume24h = Some(2)
    /\ data_store[3].volume24h = Some(2)
    /\ NonPinned = {2}

\* ----------------------------------------------------- claims: feed client
\* C12: in every state of the feed client every instrument recorded with a
\* nonzero position is in the current selection
C12_PinnedAlwaysSelected == coins_with_positions \subseteq NewSelection

\* C17: the deltas of a refresh are previous - new and new - previous, they
\* are disjoint, previous less the one plus the other is the new selection,
\* and both are empty when the selection did not change
C17_Deltas ==
    Refreshed =>
        /\ refresh.new_selected = NewSelection
        /\ refresh.to_unsubscribe = refresh.previous_selected \ refresh.new_selected
        /\ refresh.to_subscribe = refresh.new_selected \ refresh.previous_selected
        /\ refresh.to_unsubscribe \cap refresh.to_subscribe = {}
        /\ (refresh.previous_selected \ refresh.to_unsubscribe)
               \cup refresh.to_subscribe = refresh.new_selected
        /\ refresh.previous_selected = refresh.new_selected
               => (refresh.to_unsubscribe = {} /\ refresh.to_subscribe = {})

\* a refresh that drops one instrument, adds another and keeps a third
C17_Witness ==
    /\ Refreshed
    /\ refresh.to_unsubscribe # {}
    /\ refresh.to_subscribe # {}
    /\ refresh.previous_selected \cap refresh.new_selected # {}

\* C18: after a refresh the bestBidAsk channels of the data feed are those
\* of the new selection
C18_SubscriptionsFollowSelection ==
    Refreshed => subscribed = NewSelection

\* a refresh after the login that unsubscribed one instrument and
\* subscribed another
C18_Witness ==
    /\ Refreshed
    /\ authenticated
    /\ refresh.to_unsubscribe # {}
    /\ refresh.to_subscribe # {}
    /\ refresh.to_unsubscribe \cap subscribed = {}
    /\ refresh.to_subscribe \subseteq subscribed

\* ------------------------------------------- claims: failures in a cycle
\* manage_coin_orders is running for cur
ManagePcs == {"refresh", "check", "cancel_all", "cancel_replace", "place", "place_sell"}

\* the order-check cycle is at cur: the for loop of line 593 is under way
InCycle == pc \in ManagePcs \cup {"coin_done"}

\* the steps run() can take inside an order-check cycle once the connector
\* call it stands at has returned
CycleStep ==
    \/ ManageNext
    \/ EndCycle
    \/ UpdatePositionTracking
    \/ CheckOrders
    \/ CancelAllOrders
    \/ CancelBeforePlace
    \/ PlaceClosingOrder
    \/ PlaceBuyOrder
    \/ PlaceSellOrder
    \/ ManageRaises

\* C19: a failed call or an exception while one instrument is managed does
\* not halt the cycle: the loop is never ended from inside an order-check
\* cycle, the instruments after the current one are all still queued, and
\* when the current one is done the loop moves to the next or ends the cycle
C19_FailureIsolated ==
    /\ pc \in {"emergency", "stopped"} => cur = 0
    /\ InCycle =>
          LET codes == SeqOf(DOMAIN all_market_data)
          IN  \E k \in 1..Len(codes) :
                 /\ cur = codes[k]
                 /\ queue = SubSeq(codes, k + 1, Len(codes))
    /\ pc = "coin_done" =>
          IF queue # <<>> THEN ENABLED ManageNext ELSE ENABLED EndCycle

\* a cycle after the first: instrument 1 is in the data and its position was
\* never tracked, so get_positions raised for it in this cycle, and
\* instrument 2 after it has been quoted
C19_Witness ==
    /\ pc = "coin_done"
    /\ last_order_check = 1
    /\ cur = 2
    /\ 1 \in DOMAIN all_market_data
    /\ 1 \notin DOMAIN positions
    /\ action = "QUOTE"
    /\ Len(PlaceCalls) = 2

\* C20: an order-check cycle always has a next step to take, also when a
\* connector call is not answered, so that the cycle ends
C20_CycleNeverBlocks == cur # 0 => ENABLED CycleStep

\* ------------------------------------- claims: failed calls and recovery
\* C21: a failed position fetch does not end the cycle: the position is
\* cached as flat and the cycle goes on to its decision; every decision is
\* preceded by a fetch of its own cycle, and a fetch that is answered caches
\* the position the connector reports
C21_PositionRefetched ==
    [][/\ (pc' = "check" /\ pc # "check") => pc = "refresh"
       /\ (pc = "refresh" /\ pc' # "refresh") =>
              /\ pc' = "check"
              /\ positions'[cur] \in {0, actualPos[cur]}
              /\ ~faults => positions'[cur] = actualPos[cur]]_vars

\* a later cycle, after the connector recovered: the short position of
\* instrument 1 has been fetched, while instrument 2, next in the loop, is
\* still cached as flat from a fetch that failed
C21_Witness ==
    /\ ~faults
    /\ last_order_check = 1
    /\ pc = "check"
    /\ cur = 1
    /\ positions[1] = -2000
    /\ actualPos[1] = -2000
    /\ 2 \in DOMAIN positions
    /\ positions[2] = 0
    /\ actualPos[2] = 2000
    /\ book[2] = NoOrders

\* C22: when the cancel_all_orders call before a QUOTE or CLOSE fails, which
\* shows in the orders it leaves open, the cycle of the instrument ends
\* there: no place call follows
C22_FailedCancelStopsAction ==
    [][(pc = "cancel_replace" /\ pc' # "cancel_replace" /\ book'[cur] # NoOrders)
          => pc' = "coin_done"]_vars

\* C23: a cycle whose connector calls are answered and whose listing shows
\* more than one order on a side issues cancel_all_orders and nothing else
\* and leaves the instrument without orders; after any cycle whose calls are
\* answered the instrument has at most one order per side, whatever earlier
\* cycles left behind; and the loop goes on from there
C23_DuplicatesRepaired ==
    (~faults /\ CycleDone) =>
        /\ Duplicates =>
              /\ action = "CANCEL_ALL"
              /\ calls = <<CancelCall(cur)>>
              /\ book[cur] = NoOrders
        /\ book[cur].buy <= 1
        /\ book[cur].sell <= 1
        /\ IF queue # <<>> THEN ENABLED ManageNext ELSE ENABLED EndCycle

\* two BUY orders of the engine, left by a failed cancel followed by a
\* placement, have been listed and cancelled after the connector recovered
C23_Witness ==
    /\ ~faults
    /\ CycleDone
    /\ working_orders.buy = 2
    /\ calls = <<CancelCall(cur)>>
    /\ book[cur] = NoOrders

\* --------------------------------------------------- claims: determinism
\* what a cycle does for instrument m, written as a function of the three
\* inputs of the cycle alone: the snapshot, the position as fetched and the
\* listing of open orders
QuoteCalls(m, snapshot) ==
    LET prices == calculate_market_making_prices(snapshot)
        Side(side, key) ==
            IF key \in DOMAIN prices /\ calculate_order_quantity(prices[key]) > 0
            THEN <<QuoteOrder(m, side, prices[key])>>
            ELSE <<>>
    IN  Side("BUY", "buy_price") \o Side("SELL", "sell_price")

Outcome(m, snapshot, position, orders) ==
    LET pos == [k \in {m} |-> position]
    IN  IF \/ check_multiple_orders_same_side(orders)
           \/ should_cancel_orders_due_to_narrow_spread(pos, m, snapshot)
        THEN [action |-> "CANCEL_ALL", calls |-> <<CancelCall(m)>>]
        ELSE IF ~should_make_market(snapshot)
        THEN [action |-> "SKIP", calls |-> <<>>]
        ELSE IF position # 0
        THEN [action |-> "CLOSE",
              calls |-> <<CancelCall(m), ClosingOrder(m, position, snapshot)>>]
        ELSE [action |-> "QUOTE",
              calls |-> <<CancelCall(m)>> \o QuoteCalls(m, snapshot)]

\* C24: the action of a cycle and its calls, with their sides, prices and
\* quantities, are a function of the snapshot, the fetched position and the
\* listing: two cycles with the same three inputs do the same, whatever
\* earlier cycles cached, placed or left behind
C24_SameInputsSameAction ==
    CycleDone =>
        LET o == Outcome(cur, coin_data, positions[cur], working_orders)
        IN  /\ action = o.action
            /\ calls = o.calls

\* a cycle after the first finds the closing order of an earlier cycle
\* resting and the same position, and derives the same closing order
C24_Witness ==
    /\ CycleDone
    /\ last_order_check = 1
    /\ action = "CLOSE"
    /\ positions[cur] = 2000
    /\ working_orders = [buy |-> 0, sell |-> 1]
    /\ Len(PlaceCalls) = 1
    /\ PlaceCalls[1].side = "SELL"

\* C25: a second call of select_coins on the data_store, the pinned set and
\* the previous selection of a refresh returns the selection set and the
\* two deltas of the first, in whatever order the pinned set is enumerated
C25_SelectionDeterministic ==
    Refreshed =>
        \A pinned \in ListsOf(coins_with_positions) :
            LET again == Range(select_coins(data_store, pinned))
            IN  /\ again = refresh.new_selected
                /\ again = NewSelection
                /\ to_unsubscribe(refresh.previous_selected, again)
                      = refresh.to_unsubscribe
                /\ to_subscribe(refresh.previous_selected, again)
                      = refresh.to_subscribe

\* three pinned codes, which list() may enumerate in six orders, and a
\* refresh that changed the selection in both directions
C25_Witness ==
    /\ Refreshed
    /\ Cardinality(coins_with_positions) = 3
    /\ refresh.to_unsubscribe # {}
    /\ refresh.to_subscribe # {}

\* ------------------------------------------ claims: one sequence at a time
\* the engine changed the open orders of m in this step (a fill changes the
\* position as well)
EngineTouches(m) == book'[m] # book[m] /\ actualPos' = actualPos

\* C26: the cancel and place calls of an instrument belong to one sequence
\* at a time.  The loop leaves an instrument only when manage_coin_orders
\* has returned for it; the startup cleanup and the cleanup at the end of
\* run() act only while no instrument is being managed; inside a cycle the
\* engine touches the orders of the instrument being managed and of no
\* other, every call of the cycle is a call for it, and it is not queued
\* for a second visit
C26_OneSequenceInFlight ==
    [][/\ cur' # cur => pc \in {"cycle", "coin_done"}
       /\ pc' \in {"cleanup", "emergency"} => cur' = 0
       /\ \A i \in DOMAIN calls' : calls'[i].coin = cur'
       /\ \A i \in DOMAIN queue' : queue'[i] # cur'
       /\ \A m \in Coins :
             EngineTouches(m) =>
                \/ /\ cur = m
                   /\ pc \in {"cancel_all", "cancel_replace", "place", "place_sell"}
                \/ /\ cur = 0
                   /\ pc = "cleanup"
                   /\ queue # <<>>
                   /\ Head(queue) = m
                \/ /\ cur = 0
                   /\ pc = "emergency"]_vars

\* a cycle after the startup cleanup: the sequence of instrument 1 has put
\* its two orders and returned, and the sequence of instrument 2 stands
\* between its cancel and its placement
C26_Witness ==
    /\ last_order_check = 1
    /\ pc = "place"
    /\ cur = 2
    /\ calls = <<CancelCall(2)>>
    /\ book[1] = [buy |-> 1, sell |-> 1]
    /\ 1 \in DOMAIN all_market_data

\* ------------------------------------------------- claims: the hand-off
\* C27: load_market_data opening a file that is being written does not end
\* the loop: it returns nothing, run() waits and polls again without a
\* connector call, the marker and the cached data stay as they were; a poll
\* that finds a newer file opens it, and a file found complete is read: the
\* marker becomes the modification time seen and the cache the entries read
C27_PartialFileSkipped ==
    [][/\ pc' \notin {"emergency", "stopped"}
       /\ (pc = "open" /\ pc' # "open" /\ file_partial) =>
             /\ pc' = "waiting"
             /\ all_market_data' = <<>>
             /\ last_file_modified' = last_file_modified
             /\ last_market_data' = last_market_data
             /\ book' = book
       /\ (pc = "load" /\ pc' # "load" /\ file_mtime > last_file_modified) =>
             /\ pc' = "open"
             /\ file_modified' = file_mtime
       /\ (pc = "open" /\ pc' # "open" /\ ~file_partial) =>
             /\ last_file_modified' = file_modified
             /\ DOMAIN last_market_data' \subseteq file.data
             /\ DOMAIN last_market_data' # {} =>
                   /\ all_market_data' = last_market_data'
                   /\ pc' \in {"cleanup", "schedule"}]_vars

\* the engine has quoted from an earlier file, found the next one half
\* written and waits: its marker is behind the file and the cached data and
\* the resting orders are those of the earlier file
C27_Witness ==
    /\ pc = "waiting"
    /\ file_partial
    /\ file_modified = file_mtime
    /\ last_file_modified < file_modified
    /\ last_file_modified > 0
    /\ DOMAIN last_market_data = {1, 2}
    /\ book[1] = [buy |-> 1, sell |-> 1]

\* ------------------------------------------------ claims: the narrow market
\* C28: with a flat position, a spread below the threshold and no duplicates
\* the action is CANCEL_ALL, with its one cancel call, when the listing shows
\* open orders, and SKIP without any call when it shows none
C28_NarrowFlatCancelsOnlyOrders ==
    (CycleDone /\ Flat /\ SpreadBelow /\ ~Duplicates) =>
        IF working_orders # NoOrders
        THEN action = "CANCEL_ALL" /\ calls = <<CancelCall(cur)>>
        ELSE action = "SKIP" /\ calls = <<>>

\* ------------------------------------------------- claims: quoted prices
\* C29: when a QUOTE cycle has issued a BUY and a SELL, the price of the BUY
\* is strictly below the price of the SELL, for every snapshot that passes
\* the spread threshold 0.006 (and so for every one passing 0.007) with the
\* tick fraction 0.001
C29_QuoteNotCrossed ==
    (CycleDone /\ action = "QUOTE") =>
        \A i, j \in 1..Len(PlaceCalls) :
            (PlaceCalls[i].side = "BUY" /\ PlaceCalls[j].side = "SELL") =>
                PlaceCalls[i].price < PlaceCalls[j].price

\* a two-sided quote on a snapshot whose spread is exactly the threshold:
\* 6 dollars on a mid price of 1000
C29_Witness ==
    /\ CycleDone
    /\ action = "QUOTE"
    /\ coin_data = Snap(1003, 997, 900)
    /\ Len(PlaceCalls) = 2
    /\ PlaceCalls[1].side = "BUY"
    /\ PlaceCalls[2].side = "SELL"
    /\ PlaceCalls[1].price = 997997
    /\ PlaceCalls[2].price = 1001997

\* C30: no order of the engine is left on an instrument the engine no longer
\* evaluates: at the end of an order-check cycle every instrument with open
\* orders, all of them placed by the engine, is one of the instruments read
\* from the hand-off file for this cycle; the orders of an instrument that
\* dropped out of the file have been cancelled.  Stated for the cycles that
\* evaluated every instrument of the file as it stands
C30_NoOrderUnmanaged ==
    (pc = "coin_done" /\ queue = <<>> /\ ~file_partial
                      /\ DOMAIN all_market_data = file.data) =>
        \A m \in Coins : book[m] # NoOrders => m \in file.data

\* ------------------------------------------------ claims: startup cleanup
\* C31: the startup cleanup runs once.  It is entered from the first load
\* that returns data, and only while no order check has ended; a load that
\* returns data before the first order check has ended always enters it;
\* while it runs manage_coin_orders has not been called, so no order has
\* been placed; and the loop comes back to its load only with
\* last_order_check set, so that no later load enters it again
C31_CleanupOnce ==
    [][/\ (pc' = "cleanup" /\ pc # "cleanup") =>
             /\ pc \in {"load", "open"}
             /\ last_order_check = 0
             /\ DOMAIN all_market_data = {}
             /\ DOMAIN all_market_data' # {}
       /\ (pc \in {"load", "open"} /\ pc' = "schedule") => last_order_check # 0
       /\ pc' = "cleanup" =>
             /\ positions' = <<>>
             /\ calls' = <<>>
             /\ cur' = 0
       /\ (pc' = "load" /\ pc \notin {"load", "waiting", "open"}) =>
             last_order_check' # 0]_vars

\* a later pass of the loop: data was loaded and the loop stands at its
\* order check without a cleanup, the orders of instrument 1 resting
C31_Witness ==
    /\ pc = "schedule"
    /\ last_order_check = 1
    /\ DOMAIN all_market_data = {1, 2}
    /\ book[1] = [buy |-> 1, sell |-> 1]
    /\ positions # <<>>

\* ------------------------------------------------- claims: the snapshot store
\* C32: every selected market code has an entry in data_store, so that
\* save_to_json finds the entry of every code it writes, also after position
\* messages that name a market outside all_market_codes
C32_SelectedHaveEntries ==
    Range(selected_market_codes) \subseteq DOMAIN data_store

====
